---------------------------- MODULE Spec2Model ----------------------------
(***************************************************************************)
(* A model of Halide's fork_async_producers lowering pass                  *)
(* (src/src/AsyncProducers.cpp).  IR statements and expressions are        *)
(* records tagged by the field k; names are sequences of string tokens     *)
(* ("f.semaphore_0" is <<"f", "semaphore_0">>), so that string             *)
(* concatenation is \o and starts_with is a prefix test.                   *)
(***************************************************************************)
EXTENDS Integers, Sequences, FiniteSets, TLC

VARIABLES
    stage,      \* position in fork_async_producers / the loop / the run
    env,        \* the set of stage names whose schedule is async
    input,      \* the statement handed to fork_async_producers
    tightened,  \* after TightenConsumeNodes
    forked,     \* after ForkAsyncProducers
    expanded,   \* after ExpandAcquireNodes
    tforked,    \* after TightenForkNodes
    lowered,    \* after InitializeSemaphores
    error,      \* the internal_assert message that aborted the pass, or ""
    cloned,     \* ForkAsyncProducers::cloned_acquires when the stage ended
    minted,     \* every clone name GenerateProducerBody minted
    lw,         \* InitializeSemaphores::visit(const LetStmt *) as a loop
    rt          \* the generated program under the task runtime

vars == <<stage, env, input, tightened, forked, expanded, tforked, lowered,
          error, cloned, minted, lw, rt>>

---------------------------------------------------------------------------
(* Expressions *)
IntImm(v) == [k |-> "IntImm", value |-> v]
Variable(n) == [k |-> "Variable", name |-> n]
Call(n, args, t) == [k |-> "Call", name |-> n, args |-> args, type |-> t]
Let(n, v, b) == [k |-> "Let", name |-> n, value |-> v, body |-> b]

(* Statements *)
LetStmt(n, v, b) == [k |-> "LetStmt", name |-> n, value |-> v, body |-> b]
Block(a, b) == [k |-> "Block", first |-> a, rest |-> b]
For(n, e, b) == [k |-> "For", name |-> n, extent |-> e, body |-> b]
Realize(n, b) == [k |-> "Realize", name |-> n, body |-> b]
ProducerConsumer(n, p, b) ==
    [k |-> "ProducerConsumer", name |-> n, is_producer |-> p, body |-> b]
Fork(a, b) == [k |-> "Fork", first |-> a, rest |-> b]
Acquire(s, c, b) == [k |-> "Acquire", semaphore |-> s, count |-> c, body |-> b]
Evaluate(e) == [k |-> "Evaluate", value |-> e]
Provide(n, v) == [k |-> "Provide", name |-> n, value |-> v]
AssertStmt(c) == [k |-> "AssertStmt", condition |-> c]
IfThenElse(c, t, e) ==
    [k |-> "IfThenElse", condition |-> c, then_case |-> t, else_case |-> e]

NoOp == Evaluate(IntImm(0))
Nil == [k |-> "Nil"]

SemaphoreT == "halide_semaphore_t *"
Int32T == "int32"

make_semaphore(c) == Call(<<"halide_make_semaphore">>, <<c>>, SemaphoreT)
semaphore_release(s, c) == Call(<<"halide_semaphore_release">>, <<s, c>>, Int32T)
semaphore_init(s, c) == Call(<<"halide_semaphore_init">>, <<s, c>>, Int32T)
alloca_semaphore == Call(<<"alloca">>, <<IntImm(8)>>, SemaphoreT)

---------------------------------------------------------------------------
(* Collaborators of the pass that live outside AsyncProducers.cpp *)

is_no_op(s) == s.k = "Evaluate" /\ s.value.k = "IntImm"

starts_with(name, prefix) ==
    /\ Len(name) >= Len(prefix)
    /\ SubSeq(name, 1, Len(prefix)) = prefix

RECURSIVE expr_uses_vars(_, _)
expr_uses_vars(e, names) ==
    CASE e.k = "IntImm" -> FALSE
      [] e.k = "Variable" -> e.name \in names
      [] e.k = "Call" ->
            \/ e.name \in names
            \/ \E i \in 1..Len(e.args) : expr_uses_vars(e.args[i], names)
      [] e.k = "Let" ->
            expr_uses_vars(e.value, names) \/ expr_uses_vars(e.body, names)

expr_uses_var(e, name) == expr_uses_vars(e, {name})

RECURSIVE stmt_uses_vars(_, _)
stmt_uses_vars(s, names) ==
    CASE s.k = "LetStmt" ->
            expr_uses_vars(s.value, names) \/ stmt_uses_vars(s.body, names)
      [] s.k \in {"Block", "Fork"} ->
            stmt_uses_vars(s.first, names) \/ stmt_uses_vars(s.rest, names)
      [] s.k \in {"For", "Realize", "ProducerConsumer"} ->
            stmt_uses_vars(s.body, names)
      [] s.k = "Acquire" ->
            \/ expr_uses_vars(s.semaphore, names)
            \/ expr_uses_vars(s.count, names)
            \/ stmt_uses_vars(s.body, names)
      [] s.k = "Evaluate" -> expr_uses_vars(s.value, names)
      [] s.k = "Provide" -> s.name \in names \/ expr_uses_vars(s.value, names)
      [] s.k = "AssertStmt" -> expr_uses_vars(s.condition, names)
      [] s.k = "IfThenElse" ->
            \/ expr_uses_vars(s.condition, names)
            \/ stmt_uses_vars(s.then_case, names)
            \/ stmt_uses_vars(s.else_case, names)

stmt_uses_var(s, name) == stmt_uses_vars(s, {name})

---------------------------------------------------------------------------
(* TightenConsumeNodes *)

RECURSIVE make_consume(_, _, _)
make_consume(name, is_producer, body) ==
    IF body.k = "LetStmt" THEN
        LetStmt(body.name, body.value, make_consume(name, is_producer, body.body))
    ELSE IF body.k = "Block" THEN
        LET scope == {name, name \o <<"buffer">>}
            first == stmt_uses_vars(body.first, scope)
            rest == stmt_uses_vars(body.rest, scope)
        IN  IF first /\ rest /\ is_producer THEN
                ProducerConsumer(name, is_producer, body)
            ELSE IF first /\ rest THEN
                Block(make_consume(name, is_producer, body.first),
                      make_consume(name, is_producer, body.rest))
            ELSE IF first THEN
                Block(make_consume(name, is_producer, body.first), body.rest)
            ELSE IF rest THEN
                Block(body.first, make_consume(name, is_producer, body.rest))
            ELSE body
    ELSE IF body.k = "ProducerConsumer" THEN
        ProducerConsumer(body.name, body.is_producer,
                         make_consume(name, is_producer, body.body))
    ELSE IF body.k = "Realize" THEN
        Realize(body.name, make_consume(name, is_producer, body.body))
    ELSE ProducerConsumer(name, is_producer, body)

\* the marker visit with the branch for produce markers switched on
TightenPC_KeepProduce(op, body) ==
    IF op.is_producer THEN ProducerConsumer(op.name, TRUE, body)
    ELSE make_consume(op.name, op.is_producer, body)

\* TightenConsumeNodes::visit(const ProducerConsumer *), given the mutated body;
\* the branch guarded by (false && op->is_producer) is never taken.
TightenPC(op, body) ==
    IF FALSE /\ op.is_producer THEN ProducerConsumer(op.name, TRUE, body)
    ELSE make_consume(op.name, op.is_producer, body)

RECURSIVE TightenConsumeNodes(_)
TightenConsumeNodes(s) ==
    CASE s.k = "ProducerConsumer" -> TightenPC(s, TightenConsumeNodes(s.body))
      [] s.k = "LetStmt" -> LetStmt(s.name, s.value, TightenConsumeNodes(s.body))
      [] s.k = "Block" ->
            Block(TightenConsumeNodes(s.first), TightenConsumeNodes(s.rest))
      [] s.k = "Fork" ->
            Fork(TightenConsumeNodes(s.first), TightenConsumeNodes(s.rest))
      [] s.k = "For" -> For(s.name, s.extent, TightenConsumeNodes(s.body))
      [] s.k = "Realize" -> Realize(s.name, TightenConsumeNodes(s.body))
      [] s.k = "Acquire" ->
            Acquire(s.semaphore, s.count, TightenConsumeNodes(s.body))
      [] s.k = "IfThenElse" ->
            IfThenElse(s.condition, TightenConsumeNodes(s.then_case),
                       TightenConsumeNodes(s.else_case))
      [] OTHER -> s

---------------------------------------------------------------------------
(* ExpandAcquireNodes *)

\* a LetStmt visit that never hoists the Acquire
ExpandLetStmt_NoHoist(op, body) == LetStmt(op.name, op.value, body)

\* visit(const LetStmt *), given the mutated body: the hoisted Acquire's new
\* body is built with LetStmt::make and is not mutated again.
ExpandLetStmt(op, body) ==
    IF /\ body.k = "Acquire"
       /\ ~expr_uses_var(body.semaphore, op.name)
       /\ ~expr_uses_var(body.count, op.name)
    THEN Acquire(body.semaphore, body.count,
                 LetStmt(op.name, op.value, body.body))
    ELSE LetStmt(op.name, op.value, body)

RECURSIVE ExpandAcquireNodes(_)
ExpandAcquireNodes(s) ==
    CASE s.k = "Block" ->
            LET first == ExpandAcquireNodes(s.first)
                rest == ExpandAcquireNodes(s.rest)
            IN  IF first.k = "Acquire" THEN
                    Acquire(first.semaphore, first.count,
                            ExpandAcquireNodes(Block(first.body, s.rest)))
                ELSE Block(first, rest)
      [] s.k = "Realize" ->
            LET body == ExpandAcquireNodes(s.body)
            IN  IF body.k = "Acquire" THEN
                    Acquire(body.semaphore, body.count,
                            ExpandAcquireNodes(Realize(s.name, body.body)))
                ELSE Realize(s.name, body)
      [] s.k = "LetStmt" -> ExpandLetStmt(s, ExpandAcquireNodes(s.body))
      [] s.k = "ProducerConsumer" ->
            LET body == ExpandAcquireNodes(s.body)
            IN  IF body.k = "Acquire" THEN
                    Acquire(body.semaphore, body.count,
                            ExpandAcquireNodes(
                                ProducerConsumer(s.name, s.is_producer, body.body)))
                ELSE ProducerConsumer(s.name, s.is_producer, body)
      [] s.k = "Fork" ->
            Fork(ExpandAcquireNodes(s.first), ExpandAcquireNodes(s.rest))
      [] s.k = "For" -> For(s.name, s.extent, ExpandAcquireNodes(s.body))
      [] s.k = "Acquire" ->
            Acquire(s.semaphore, s.count, ExpandAcquireNodes(s.body))
      [] s.k = "IfThenElse" ->
            IfThenElse(s.condition, ExpandAcquireNodes(s.then_case),
                       ExpandAcquireNodes(s.else_case))
      [] OTHER -> s

---------------------------------------------------------------------------
(* TightenForkNodes *)

RECURSIVE make_fork(_, _)
make_fork(first, rest) ==
    LET lf == first.k = "LetStmt"
        lr == rest.k = "LetStmt"
        rf == first.k = "Realize"
        rr == rest.k = "Realize"
    IN  IF lf /\ lr /\ first.name = rest.name /\ first.value = rest.value THEN
            LetStmt(first.name, first.value, make_fork(first.body, rest.body))
        ELSE IF lf /\ ~stmt_uses_var(rest, first.name) THEN
            LetStmt(first.name, first.value, make_fork(first.body, rest))
        ELSE IF lr /\ ~stmt_uses_var(first, rest.name) THEN
            LetStmt(rest.name, rest.value, make_fork(first, rest.body))
        ELSE IF rf /\ ~stmt_uses_var(rest, first.name) THEN
            Realize(first.name, make_fork(first.body, rest))
        ELSE IF rr /\ ~stmt_uses_var(first, rest.name) THEN
            Realize(rest.name, make_fork(first, rest.body))
        ELSE Fork(first, rest)

\* a binding visit that keeps every binding
TightenBinding_Keep(op, body, in_fork) == [op EXCEPT !.body = body]

\* a binding visit that drops unused bindings outside Fork children too
TightenBinding_AnyScope(op, body, in_fork) ==
    IF ~stmt_uses_var(body, op.name) THEN body ELSE [op EXCEPT !.body = body]

\* visit(const Realize *) and visit(const LetStmt *), given the mutated body
TightenBinding(op, body, in_fork) ==
    IF in_fork /\ ~stmt_uses_var(body, op.name) THEN body
    ELSE [op EXCEPT !.body = body]

RECURSIVE TightenFork(_, _)
TightenFork(s, in_fork) ==
    CASE s.k = "Fork" ->
            LET first == TightenFork(s.first, TRUE)
                rest == TightenFork(s.rest, TRUE)
            IN  IF is_no_op(first) THEN rest
                ELSE IF is_no_op(rest) THEN first
                ELSE make_fork(first, rest)
      [] s.k \in {"Realize", "LetStmt"} ->
            TightenBinding(s, TightenFork(s.body, in_fork), in_fork)
      [] s.k = "Block" ->
            Block(TightenFork(s.first, in_fork), TightenFork(s.rest, in_fork))
      [] s.k = "For" -> For(s.name, s.extent, TightenFork(s.body, in_fork))
      [] s.k = "ProducerConsumer" ->
            ProducerConsumer(s.name, s.is_producer, TightenFork(s.body, in_fork))
      [] s.k = "Acquire" ->
            Acquire(s.semaphore, s.count, TightenFork(s.body, in_fork))
      [] s.k = "IfThenElse" ->
            IfThenElse(s.condition, TightenFork(s.then_case, in_fork),
                       TightenFork(s.else_case, in_fork))
      [] OTHER -> s

TightenForkNodes(s) == TightenFork(s, FALSE)

---------------------------------------------------------------------------
(* ForkAsyncProducers and its helpers.  A mutator's members (sema,         *)
(* cloned_acquires, the unique_name counter, a failed internal_assert) are  *)
(* threaded through the traversal in the order the C++ visits children.     *)

EmptyMap == [x \in {} |-> <<>>]
MapPut(m, key, v) == [x \in (DOMAIN m) \cup {key} |-> IF x = key THEN v ELSE m[x]]

DuplicateProduce == "Duplicate produce node!"
NotAVariable == "internal_assert(var)"
EmptyBack == "sema.back() on an empty vector"

\* func + ".folding_semaphore." is a prefix of name
is_folding_semaphore(name, func) ==
    /\ Len(name) > Len(func) + 1
    /\ starts_with(name, func \o <<"folding_semaphore">>)

\* var->name + unique_name('_')
clone_name(name, uid) == name \o <<"_" \o ToString(uid)>>

\* op->name + ".semaphore_" + std::to_string(i)
sema_name(func, i) == func \o <<"semaphore_" \o ToString(i)>>

Back(q) == q[Len(q)]
PopBack(q) == SubSeq(q, 1, Len(q) - 1)

\* the while loop of GenerateProducerBody::visit(const ProducerConsumer *)
RECURSIVE AddReleases(_, _)
AddReleases(body, sema) ==
    IF sema = <<>> THEN body
    ELSE AddReleases(
            Block(body, Evaluate(semaphore_release(Back(sema), IntImm(1)))),
            PopBack(sema))

\* GenerateProducerBody::visit(const ProducerConsumer *) on the produce node
\* of func
ProduceNode(op, st) ==
    IF st.sema = <<>> THEN
        [stmt |-> op, st |-> [st EXCEPT !.err = DuplicateProduce]]
    ELSE [stmt |-> ProducerConsumer(op.name, TRUE, AddReleases(op.body, st.sema)),
          st |-> [st EXCEPT !.sema = <<>>]]

\* GenerateProducerBody::visit(const Acquire *), given the mutated body
ProducerAcquire(op, func, body, st) ==
    IF op.semaphore.k # "Variable" THEN
        [stmt |-> body, st |-> [st EXCEPT !.err = NotAVariable]]
    ELSE IF is_no_op(body) THEN [stmt |-> body, st |-> st]
    ELSE IF is_folding_semaphore(op.semaphore.name, func) THEN
        [stmt |-> Acquire(op.semaphore, op.count, body), st |-> st]
    ELSE
        LET cloned_acquire == clone_name(op.semaphore.name, st.uid)
        IN  [stmt |-> Acquire(Variable(cloned_acquire), op.count, body),
             st |-> [st EXCEPT
                        !.uid = @ + 1,
                        !.cloned = MapPut(@, op.semaphore.name, cloned_acquire),
                        !.minted = @ \cup {cloned_acquire}]]

RECURSIVE GenerateProducerBody(_, _, _)
GenerateProducerBody(s, func, st) ==
    IF st.err # "" THEN [stmt |-> s, st |-> st]
    ELSE
    CASE s.k = "ProducerConsumer" ->
            IF s.name = func /\ s.is_producer THEN ProduceNode(s, st)
            ELSE
                LET r == GenerateProducerBody(s.body, func, st)
                IN  IF is_no_op(r.stmt) \/ s.is_producer THEN r
                    ELSE [stmt |-> ProducerConsumer(s.name, s.is_producer, r.stmt),
                          st |-> r.st]
      [] s.k \in {"Evaluate", "Provide", "AssertStmt"} ->
            [stmt |-> NoOp, st |-> st]
      [] s.k = "Acquire" ->
            LET r == GenerateProducerBody(s.body, func, st)
            IN  IF r.st.err # "" THEN r
                ELSE ProducerAcquire(s, func, r.stmt, r.st)
      \* NoOpCollapsingMutator
      [] s.k \in {"LetStmt", "For", "Realize"} ->
            LET r == GenerateProducerBody(s.body, func, st)
            IN  IF is_no_op(r.stmt) THEN r
                ELSE [stmt |-> [s EXCEPT !.body = r.stmt], st |-> r.st]
      [] s.k \in {"Block", "Fork"} ->
            LET a == GenerateProducerBody(s.first, func, st)
                b == GenerateProducerBody(s.rest, func, a.st)
            IN  [stmt |-> IF is_no_op(a.stmt) THEN b.stmt
                          ELSE IF is_no_op(b.stmt) THEN a.stmt
                          ELSE [s EXCEPT !.first = a.stmt, !.rest = b.stmt],
                 st |-> b.st]
      [] s.k = "IfThenElse" ->
            LET a == GenerateProducerBody(s.then_case, func, st)
                b == GenerateProducerBody(s.else_case, func, a.st)
            IN  [stmt |-> IF is_no_op(a.stmt) /\ is_no_op(b.stmt) THEN a.stmt
                          ELSE IfThenElse(s.condition, a.stmt, b.stmt),
                 st |-> b.st]

\* a consume node left without its Acquire
ConsumeNode_Ungated(op, st) == [stmt |-> op, st |-> st]

\* GenerateConsumerBody::visit(const ProducerConsumer *) on a consume node of
\* func: the node itself is kept whole under the Acquire and is not visited
ConsumeNode(op, st) ==
    IF st.sema = <<>> THEN [stmt |-> op, st |-> [st EXCEPT !.err = EmptyBack]]
    ELSE [stmt |-> Acquire(Back(st.sema), IntImm(1), op),
          st |-> [st EXCEPT !.sema = PopBack(@)]]

RECURSIVE GenerateConsumerBody(_, _, _)
GenerateConsumerBody(s, func, st) ==
    IF st.err # "" THEN [stmt |-> s, st |-> st]
    ELSE
    CASE s.k = "ProducerConsumer" ->
            IF s.name = func THEN
                IF s.is_producer THEN [stmt |-> NoOp, st |-> st]
                ELSE ConsumeNode(s, st)
            ELSE
                LET r == GenerateConsumerBody(s.body, func, st)
                IN  [stmt |-> ProducerConsumer(s.name, s.is_producer, r.stmt),
                     st |-> r.st]
      [] s.k = "Acquire" ->
            IF s.semaphore.k # "Variable" THEN
                [stmt |-> s, st |-> [st EXCEPT !.err = NotAVariable]]
            ELSE
                LET r == GenerateConsumerBody(s.body, func, st)
                IN  IF is_folding_semaphore(s.semaphore.name, func) THEN r
                    ELSE [stmt |-> Acquire(s.semaphore, s.count, r.stmt),
                          st |-> r.st]
      \* NoOpCollapsingMutator
      [] s.k \in {"LetStmt", "For", "Realize"} ->
            LET r == GenerateConsumerBody(s.body, func, st)
            IN  IF is_no_op(r.stmt) THEN r
                ELSE [stmt |-> [s EXCEPT !.body = r.stmt], st |-> r.st]
      [] s.k \in {"Block", "Fork"} ->
            LET a == GenerateConsumerBody(s.first, func, st)
                b == GenerateConsumerBody(s.rest, func, a.st)
            IN  [stmt |-> IF is_no_op(a.stmt) THEN b.stmt
                          ELSE IF is_no_op(b.stmt) THEN a.stmt
                          ELSE [s EXCEPT !.first = a.stmt, !.rest = b.stmt],
                 st |-> b.st]
      [] s.k = "IfThenElse" ->
            LET a == GenerateConsumerBody(s.then_case, func, st)
                b == GenerateConsumerBody(s.else_case, func, a.st)
            IN  [stmt |-> IF is_no_op(a.stmt) /\ is_no_op(b.stmt) THEN a.stmt
                          ELSE IfThenElse(s.condition, a.stmt, b.stmt),
                 st |-> b.st]
      [] OTHER -> [stmt |-> s, st |-> st]

\* CloneAcquire::visit(const Evaluate *)
CloneEvaluate(op, old_name, new_name) ==
    LET call == op.value
    IN  IF /\ call.k = "Call"
           /\ call.args # <<>>
           /\ call.args[1].k = "Variable"
           /\ call.args[1].name = old_name
           /\ call.name \in {<<"halide_semaphore_release">>,
                             <<"halide_semaphore_init">>}
        THEN Block(op, Evaluate([call EXCEPT !.args[1] = Variable(new_name)]))
        ELSE op

RECURSIVE CloneAcquire(_, _, _)
CloneAcquire(s, old_name, new_name) ==
    CASE s.k = "Evaluate" -> CloneEvaluate(s, old_name, new_name)
      [] s.k \in {"LetStmt", "For", "Realize", "ProducerConsumer", "Acquire"} ->
            [s EXCEPT !.body = CloneAcquire(s.body, old_name, new_name)]
      [] s.k \in {"Block", "Fork"} ->
            [s EXCEPT !.first = CloneAcquire(s.first, old_name, new_name),
                      !.rest = CloneAcquire(s.rest, old_name, new_name)]
      [] s.k = "IfThenElse" ->
            [s EXCEPT !.then_case = CloneAcquire(s.then_case, old_name, new_name),
                      !.else_case = CloneAcquire(s.else_case, old_name, new_name)]
      [] OTHER -> s

RECURSIVE CountConsumeNodes(_, _)
CountConsumeNodes(s, func) ==
    CASE s.k = "ProducerConsumer" ->
            (IF s.name = func /\ ~s.is_producer THEN 1 ELSE 0)
            + CountConsumeNodes(s.body, func)
      [] s.k \in {"LetStmt", "For", "Realize", "Acquire"} ->
            CountConsumeNodes(s.body, func)
      [] s.k \in {"Block", "Fork"} ->
            CountConsumeNodes(s.first, func) + CountConsumeNodes(s.rest, func)
      [] s.k = "IfThenElse" ->
            CountConsumeNodes(s.then_case, func)
            + CountConsumeNodes(s.else_case, func)
      [] OTHER -> 0

\* the loop over sema_names that ends ForkAsyncProducers::visit(const Realize *)
RECURSIVE BindSemaphores(_, _, _, _)
BindSemaphores(body, names, i, cloned_acquires) ==
    IF i > Len(names) THEN body
    ELSE
        LET sema_space == make_semaphore(IntImm(0))
            b1 == IF names[i] \in DOMAIN cloned_acquires THEN
                      LetStmt(cloned_acquires[names[i]], sema_space,
                              CloneAcquire(body, names[i], cloned_acquires[names[i]]))
                  ELSE body
        IN  BindSemaphores(LetStmt(names[i], sema_space, b1), names, i + 1,
                           cloned_acquires)

SemaNames(func, count) == [i \in 1..count |-> sema_name(func, i - 1)]
SemaVars(func, count) == [i \in 1..count |-> Variable(sema_name(func, i - 1))]

\* the two halves ForkAsyncProducers::visit(const Realize *) makes of the body
ProducerHalf(body, func, st) ==
    GenerateProducerBody(body, func,
        [sema |-> SemaVars(func, CountConsumeNodes(body, func)),
         cloned |-> st.cloned, uid |-> st.uid, minted |-> st.minted,
         err |-> st.err])

ConsumerHalf(body, func, err) ==
    GenerateConsumerBody(body, func,
        [sema |-> SemaVars(func, CountConsumeNodes(body, func)), err |-> err])

\* st: [cloned, uid, minted, err]; async: the names with schedule().async()
RECURSIVE ForkAsync(_, _, _)
ForkAsync(s, async, st) ==
    IF st.err # "" THEN [stmt |-> s, st |-> st]
    ELSE
    CASE s.k = "Realize" ->
            IF s.name \in async THEN
                LET p == ProducerHalf(s.body, s.name, st)
                    c == ConsumerHalf(s.body, s.name, p.st.err)
                    st1 == [cloned |-> p.st.cloned, uid |-> p.st.uid,
                            minted |-> p.st.minted, err |-> c.st.err]
                    producer == ForkAsync(p.stmt, async, st1)
                    consumer == ForkAsync(c.stmt, async, producer.st)
                    names == SemaNames(s.name, CountConsumeNodes(s.body, s.name))
                IN  [stmt |-> Realize(s.name,
                                 BindSemaphores(Fork(producer.stmt, consumer.stmt),
                                                names, 1, consumer.st.cloned)),
                     st |-> consumer.st]
            ELSE
                LET r == ForkAsync(s.body, async, st)
                IN  [stmt |-> Realize(s.name, r.stmt), st |-> r.st]
      [] s.k \in {"LetStmt", "For", "ProducerConsumer", "Acquire"} ->
            LET r == ForkAsync(s.body, async, st)
            IN  [stmt |-> [s EXCEPT !.body = r.stmt], st |-> r.st]
      [] s.k \in {"Block", "Fork"} ->
            LET a == ForkAsync(s.first, async, st)
                b == ForkAsync(s.rest, async, a.st)
            IN  [stmt |-> [s EXCEPT !.first = a.stmt, !.rest = b.stmt],
                 st |-> b.st]
      [] s.k = "IfThenElse" ->
            LET a == ForkAsync(s.then_case, async, st)
                b == ForkAsync(s.else_case, async, a.st)
            IN  [stmt |-> IfThenElse(s.condition, a.stmt, b.stmt), st |-> b.st]
      [] OTHER -> [stmt |-> s, st |-> st]

ForkAsyncProducers(s, async) ==
    ForkAsync(s, async,
              [cloned |-> EmptyMap, uid |-> 0, minted |-> {}, err |-> ""])

---------------------------------------------------------------------------
(* InitializeSemaphores *)

MakeSemaphoreMisplaced == "Call to halide_make_semaphore in unexpected place"
NeverReturns == "while (lets.size()) never pops"

RECURSIVE type_of(_)
type_of(e) ==
    CASE e.k = "Call" -> e.type
      [] e.k = "Let" -> type_of(e.body)
      [] e.k = "Variable" -> "handle"
      [] OTHER -> Int32T

\* "Peel off any enclosing lets": the (name, value) pairs, outermost first
RECURSIVE PeelLets(_)
PeelLets(value) ==
    IF value.k = "Let" THEN <<<<value.name, value.value>>>> \o PeelLets(value.body)
    ELSE <<>>

RECURSIVE PeeledValue(_)
PeeledValue(value) == IF value.k = "Let" THEN PeeledValue(value.body) ELSE value

IsMakeSemaphore(value) ==
    value.k = "Call" /\ value.name = <<"halide_make_semaphore">>

\* the statement built before "Re-wrap any other lets"
LoweredLet(op, call, body) ==
    LetStmt(op.name, alloca_semaphore,
            Block(Evaluate(semaphore_init(Variable(op.name), call.args[1])), body))

\* InitializeSemaphores::visit(const Call *) as reached through an expression
\* the default mutator visits: it does not descend into a Call's arguments
RECURSIVE ExprHitsMakeSemaphore(_)
ExprHitsMakeSemaphore(e) ==
    CASE e.k = "Call" -> e.name = <<"halide_make_semaphore">>
      [] e.k = "Let" ->
            ExprHitsMakeSemaphore(e.value) \/ ExprHitsMakeSemaphore(e.body)
      [] OTHER -> FALSE

\* visit(const LetStmt *), given the mutated body; err is "" when it returns
InitLetStmt(op, body) ==
    LET value == PeeledValue(op.value)
    IN  IF type_of(op.value) = SemaphoreT /\ IsMakeSemaphore(value) THEN
            IF Len(value.args) # 1 THEN [stmt |-> op, err |-> "args.size() == 1"]
            ELSE IF PeelLets(op.value) # <<>> THEN
                [stmt |-> LoweredLet(op, value, body), err |-> NeverReturns]
            ELSE [stmt |-> LoweredLet(op, value, body), err |-> ""]
        ELSE [stmt |-> LetStmt(op.name, op.value, body), err |-> ""]

FirstErr(a, b) == IF a # "" THEN a ELSE b
ExprErr(e) == IF ExprHitsMakeSemaphore(e) THEN MakeSemaphoreMisplaced ELSE ""

RECURSIVE InitializeSemaphores(_)
InitializeSemaphores(s) ==
    CASE s.k = "LetStmt" ->
            LET b == InitializeSemaphores(s.body)
                r == InitLetStmt(s, b.stmt)
            IN  IF b.err # "" THEN b ELSE r
      [] s.k \in {"For", "Realize", "ProducerConsumer"} ->
            LET b == InitializeSemaphores(s.body)
            IN  [stmt |-> [s EXCEPT !.body = b.stmt], err |-> b.err]
      [] s.k \in {"Block", "Fork"} ->
            LET a == InitializeSemaphores(s.first)
                b == InitializeSemaphores(s.rest)
            IN  [stmt |-> [s EXCEPT !.first = a.stmt, !.rest = b.stmt],
                 err |-> FirstErr(a.err, b.err)]
      [] s.k = "Acquire" ->
            LET b == InitializeSemaphores(s.body)
            IN  [stmt |-> [s EXCEPT !.body = b.stmt],
                 err |-> FirstErr(ExprErr(s.semaphore),
                                  FirstErr(ExprErr(s.count), b.err))]
      [] s.k = "IfThenElse" ->
            LET a == InitializeSemaphores(s.then_case)
                b == InitializeSemaphores(s.else_case)
            IN  [stmt |-> [s EXCEPT !.then_case = a.stmt, !.else_case = b.stmt],
                 err |-> FirstErr(ExprErr(s.condition), FirstErr(a.err, b.err))]
      [] s.k \in {"Evaluate", "Provide"} -> [stmt |-> s, err |-> ExprErr(s.value)]
      [] s.k = "AssertStmt" -> [stmt |-> s, err |-> ExprErr(s.condition)]

---------------------------------------------------------------------------
(* fork_async_producers, one action per stage *)

Tighten ==
    /\ stage = "start"
    /\ tightened' = TightenConsumeNodes(input)
    /\ stage' = "tightened"
    /\ UNCHANGED <<env, input, forked, expanded, tforked, lowered, error,
                   cloned, minted, lw, rt>>

ForkProducers ==
    /\ stage = "tightened"
    /\ LET r == ForkAsyncProducers(tightened, env)
       IN  /\ error' = r.st.err
           /\ stage' = IF r.st.err = "" THEN "forked" ELSE "aborted"
           /\ forked' = IF r.st.err = "" THEN r.stmt ELSE Nil
           /\ cloned' = r.st.cloned
           /\ minted' = r.st.minted
    /\ UNCHANGED <<env, input, tightened, expanded, tforked, lowered, lw, rt>>

ExpandAcquires ==
    /\ stage = "forked"
    /\ expanded' = ExpandAcquireNodes(forked)
    /\ stage' = "expanded"
    /\ UNCHANGED <<env, input, tightened, forked, tforked, lowered, error,
                   cloned, minted, lw, rt>>

TightenForks ==
    /\ stage = "expanded"
    /\ tforked' = TightenForkNodes(expanded)
    /\ stage' = "tforked"
    /\ UNCHANGED <<env, input, tightened, forked, expanded, lowered, error,
                   cloned, minted, lw, rt>>

LowerSemaphores ==
    /\ stage = "tforked"
    /\ LET r == InitializeSemaphores(tforked)
       IN  /\ error' = r.err
           /\ stage' = IF r.err = "" THEN "lowered"
                       ELSE IF r.err = NeverReturns THEN "hung" ELSE "aborted"
           /\ lowered' = IF r.err = "" THEN r.stmt ELSE Nil
    /\ UNCHANGED <<env, input, tightened, forked, expanded, tforked, cloned,
                   minted, lw, rt>>

PassNext == Tighten \/ ForkProducers \/ ExpandAcquires \/ TightenForks
            \/ LowerSemaphores

\* cases: the [input, env] pairs fork_async_producers is called with
PassInit(cases) ==
    /\ stage = "start"
    /\ \E c \in cases : input = c.input /\ env = c.env
    /\ tightened = Nil /\ forked = Nil /\ expanded = Nil /\ tforked = Nil
    /\ lowered = Nil
    /\ error = ""
    /\ cloned = EmptyMap
    /\ minted = {}
    /\ lw = Nil
    /\ rt = Nil

---------------------------------------------------------------------------
(* Inputs: every statement of at most a given number of nodes over a small  *)
(* alphabet, and the larger trees the boundary scenarios name.              *)

f == <<"f">>
g == <<"g">>
h == <<"h">>
x == <<"x">>
one == IntImm(1)
provide(n, i) == Provide(n, IntImm(i))
call(n) == Call(n, <<>>, Int32T)
use(n, i) == Evaluate(Call(<<"use">>, <<call(n), IntImm(i)>>, Int32T))
produce(n, b) == ProducerConsumer(n, TRUE, b)
consume(n, b) == ProducerConsumer(n, FALSE, b)
folding(n) == Variable(n \o <<"folding_semaphore", "_0">>)
user_semaphore == Variable(<<"s">>)

Wrap(u, t) == [u EXCEPT !.body = t]
Join(b, l, r) == [b EXCEPT !.first = l, !.rest = r]

RECURSIVE TreesOfSize(_, _, _, _)
TreesOfSize(leaves, unary, binary, n) ==
    IF n = 1 THEN leaves
    ELSE {Wrap(u, t) : u \in unary, t \in TreesOfSize(leaves, unary, binary, n - 1)}
         \cup UNION {{Join(b, l, r) : b \in binary,
                                      l \in TreesOfSize(leaves, unary, binary, i),
                                      r \in TreesOfSize(leaves, unary, binary, n - 1 - i)}
                     : i \in 1..(n - 2)}

TreesUpTo(leaves, unary, binary, n) ==
    UNION {TreesOfSize(leaves, unary, binary, i) : i \in 1..n}

Cases(inputs, async) == {[input |-> t, env |-> async] : t \in inputs}

\* the subtrees of a statement, itself included
RECURSIVE SubStmts(_)
SubStmts(s) ==
    {s} \cup
    CASE s.k \in {"LetStmt", "For", "Realize", "ProducerConsumer", "Acquire"} ->
            SubStmts(s.body)
      [] s.k \in {"Block", "Fork"} -> SubStmts(s.first) \cup SubStmts(s.rest)
      [] s.k = "IfThenElse" -> SubStmts(s.then_case) \cup SubStmts(s.else_case)
      [] OTHER -> {}

\* the nodes of a statement in the order a visitor meets them
RECURSIVE Nodes(_)
Nodes(s) ==
    <<s>> \o
    CASE s.k \in {"LetStmt", "For", "Realize", "ProducerConsumer", "Acquire"} ->
            Nodes(s.body)
      [] s.k \in {"Block", "Fork"} -> Nodes(s.first) \o Nodes(s.rest)
      [] s.k = "IfThenElse" -> Nodes(s.then_case) \o Nodes(s.else_case)
      [] OTHER -> <<>>

\* how many nodes of s satisfy the test P
CountNodes(s, P(_)) == Len(SelectSeq(Nodes(s), P))

(* An async stage f: the body of Realize f holds produce f, consume f,      *)
(* Acquires of f's folding semaphore and of a semaphore bound elsewhere,    *)
(* and regions of another stage.                                            *)
MaxForkBody == 6

ForkLeaves == {provide(f, 1), use(f, 2)}
ForkUnary == {produce(f, Nil), consume(f, Nil), consume(g, Nil),
              Acquire(folding(f), one, Nil), Acquire(user_semaphore, one, Nil)}

\* "nested async with acquire cloning": f is produced and consumed in a loop
\* inside the consume region of g
NestedAsync ==
    Realize(g, Block(produce(g, provide(g, 1)),
        Realize(f, consume(g, For(x, 2,
            Block(produce(f, Provide(f, call(g))), consume(f, use(f, 2))))))))

\* the same, with the loop producing and consuming the stages f and h
TwiceNestedAsync ==
    Realize(g, Block(produce(g, provide(g, 1)),
        Realize(f, Realize(h, consume(g, For(x, 2,
            Block(Block(produce(f, Provide(f, call(g))), consume(f, use(f, 2))),
                  Block(produce(h, Provide(h, call(g))), consume(h, use(h, 3))))))))))

ForkCases(n) ==
    Cases({Realize(f, b) : b \in TreesUpTo(ForkLeaves, ForkUnary,
                                           {Block(Nil, Nil)}, n)}, {f})
    \cup Cases({NestedAsync}, {f, g})
    \cup Cases({TwiceNestedAsync}, {f, g, h})

Init == PassInit(ForkCases(MaxForkBody))
Spec == Init /\ [][PassNext]_vars

---------------------------------------------------------------------------
(* What the claims read off a rewritten tree *)

IsSemaphoreLet(s) == s.k = "LetStmt" /\ IsMakeSemaphore(s.value)

\* the Fork under the LetStmts that bind a Realize's semaphores
RECURSIVE StripSemaphoreLets(_)
StripSemaphoreLets(s) ==
    IF IsSemaphoreLet(s) THEN StripSemaphoreLets(s.body) ELSE s

AsyncRealizes(t, async) ==
    {r \in SubStmts(t) : r.k = "Realize" /\ r.name \in async}

IsCallOn(s, fn, names) ==
    /\ s.k = "Evaluate"
    /\ s.value.k = "Call"
    /\ s.value.name = fn
    /\ s.value.args # <<>>
    /\ s.value.args[1].k = "Variable"
    /\ s.value.args[1].name \in names

IsReleaseOf(s, names) == IsCallOn(s, <<"halide_semaphore_release">>, names)
IsInitOf(s, names) == IsCallOn(s, <<"halide_semaphore_init">>, names)
IsAcquireOf(s, names) ==
    s.k = "Acquire" /\ s.semaphore.k = "Variable" /\ s.semaphore.name \in names

Releases(s, names) == CountNodes(s, LAMBDA n : IsReleaseOf(n, names))
Acquires(s, names) == CountNodes(s, LAMBDA n : IsAcquireOf(n, names))

IsProduceOf(s, func) == s.k = "ProducerConsumer" /\ s.name = func /\ s.is_producer
IsConsumeOf(s, func) == s.k = "ProducerConsumer" /\ s.name = func /\ ~s.is_producer
ProduceNodes(s, func) == CountNodes(s, LAMBDA n : IsProduceOf(n, func))

\* the names f.semaphore_0 .. f.semaphore_{count-1}
SemaphoreFamily(func, count) == {sema_name(func, i) : i \in 0..(count - 1)}

\* Realize r of the tightened tree and Realize q, its rewrite: q's Fork
\* releases and acquires each of r's count semaphores exactly once
Balanced(r, q) ==
    LET fork == StripSemaphoreLets(q.body)
        names == SemaphoreFamily(r.name, CountConsumeNodes(r.body, r.name))
    IN  /\ fork.k = "Fork"
        /\ Releases(fork.first, names) = Cardinality(names)
        /\ Acquires(fork.rest, names) = Cardinality(names)
        /\ \A n \in names : /\ Releases(fork.first, {n}) = 1
                            /\ Acquires(fork.rest, {n}) = 1

RootIsAsync == tightened.k = "Realize" /\ tightened.name \in env

\* the body of Realize func holds one produce node of func, which neither
\* holds a consume node of func nor lies in one
ProduceApart(body, func) ==
    /\ ProduceNodes(body, func) = 1
    /\ \A n \in SubStmts(body) :
          /\ IsProduceOf(n, func) => CountConsumeNodes(n.body, func) = 0
          /\ IsConsumeOf(n, func) => ProduceNodes(n.body, func) = 0

SaneRoot == RootIsAsync /\ ProduceApart(tightened.body, tightened.name)

\* C1: the Fork built for an async Realize releases, in its producer half,
\* and acquires, in its consumer half, each of the k semaphores
\* f.semaphore_0 .. f.semaphore_{k-1} exactly once, k being what
\* CountConsumeNodes counts in the body, consume nodes nested in consume
\* nodes included (stated here for a body whose one produce node stands
\* apart from the consume regions).
C1_ProducerConsumerBalance ==
    stage = "forked" /\ SaneRoot => Balanced(tightened, forked)

FoldingAcquires(s, func) ==
    CountNodes(s, LAMBDA n : /\ n.k = "Acquire"
                             /\ n.semaphore.k = "Variable"
                             /\ is_folding_semaphore(n.semaphore.name, func))

\* C3: the consumer half of the Fork built for an async stage f holds no
\* Acquire of a semaphore named f.folding_semaphore.*, wherever the Acquire
\* sat in the Realize body: around the produce node, in a consume region of
\* f, or in a region of another stage.
C3_FoldingOnProducerSide ==
    stage = "forked" /\ SaneRoot =>
        FoldingAcquires(StripSemaphoreLets(forked.body).rest, tightened.name) = 0

\* C5: the "Duplicate produce node" error is raised only when the body of
\* an async Realize holds a second produce node of its stage; a body with
\* exactly one is rewritten without it, whatever the number of consume
\* regions.
C5_DuplicateOnlyOnSecondProduce ==
    error = DuplicateProduce =>
        \E r \in AsyncRealizes(tightened, env) : ProduceNodes(r.body, r.name) >= 2

\* the semaphore names used by an Acquire, a release or an init of s that no
\* enclosing LetStmt of s binds
RECURSIVE FreeSemaphores(_)
FreeSemaphores(s) ==
    CASE s.k = "LetStmt" -> FreeSemaphores(s.body) \ {s.name}
      [] s.k = "Acquire" ->
            (IF s.semaphore.k = "Variable" THEN {s.semaphore.name} ELSE {})
            \cup FreeSemaphores(s.body)
      [] s.k = "Evaluate" ->
            IF /\ s.value.k = "Call"
               /\ s.value.name \in {<<"halide_semaphore_release">>,
                                    <<"halide_semaphore_init">>}
               /\ s.value.args # <<>>
               /\ s.value.args[1].k = "Variable"
            THEN {s.value.args[1].name} ELSE {}
      [] s.k \in {"For", "Realize", "ProducerConsumer"} -> FreeSemaphores(s.body)
      [] s.k \in {"Block", "Fork"} ->
            FreeSemaphores(s.first) \cup FreeSemaphores(s.rest)
      [] s.k = "IfThenElse" ->
            FreeSemaphores(s.then_case) \cup FreeSemaphores(s.else_case)
      [] OTHER -> {}

Bindings(s, name) ==
    CountNodes(s, LAMBDA n : /\ n.k = "LetStmt" /\ n.name = name
                             /\ n.value = make_semaphore(IntImm(0)))

\* the f.semaphore_i names ForkAsyncProducers gave the async stages of t
IntroducedSemaphores(t, async) ==
    UNION {SemaphoreFamily(r.name, CountConsumeNodes(r.body, r.name))
           : r \in AsyncRealizes(t, async)}

\* C10: every semaphore name the pass introduces, f.semaphore_i or a clone,
\* is bound by exactly one LetStmt to halide_make_semaphore(0), and that
\* LetStmt encloses every Acquire, release and init of the name.
C10_SemaphoreLifetime ==
    stage = "forked" /\ SaneRoot =>
        \A n \in minted \cup IntroducedSemaphores(tightened, env) :
            /\ Bindings(forked, n) = 1
            /\ n \notin FreeSemaphores(forked)

---------------------------------------------------------------------------
(* A tree with no async stage: Acquire, Fork, LetStmt, Realize and consume *)
(* nodes around one leaf, run through the five stages with async = {}.     *)

MaxStructBody == 5

sem == <<"sem">>
StructLeaves == {use(f, 2)}
StructUnary == {LetStmt(x, one, Nil), LetStmt(sem, make_semaphore(IntImm(0)), Nil),
                Acquire(user_semaphore, one, Nil), Acquire(Variable(x), one, Nil),
                Realize(g, Nil), consume(g, Nil)}
StructBinary == {Block(Nil, Nil), Fork(Nil, Nil)}

StructCases(n) ==
    Cases(TreesUpTo(StructLeaves, StructUnary, StructBinary, n), {})

InitStruct == PassInit(StructCases(MaxStructBody))
SpecStruct == InitStruct /\ [][PassNext]_vars

HasNode(s, P(_)) == CountNodes(s, P) > 0
AcquireFree(s) == ~HasNode(s, LAMBDA n : n.k = "Acquire")
ForkFree(s) == ~HasNode(s, LAMBDA n : n.k = "Fork")
MakeSemaphoreFree(s) ==
    ~HasNode(s, LAMBDA n : n.k = "LetStmt" /\ ExprHitsMakeSemaphore(n.value))

\* a LetStmt around an Acquire that uses the bound name in neither its
\* semaphore nor its count
IsHoistableLet(s) ==
    /\ s.k = "LetStmt"
    /\ s.body.k = "Acquire"
    /\ ~expr_uses_var(s.body.semaphore, s.name)
    /\ ~expr_uses_var(s.body.count, s.name)

IsAcquireFirstBlock(s) == s.k = "Block" /\ s.first.k = "Acquire"
IsAcquireBodied(s) ==
    s.k \in {"Realize", "ProducerConsumer"} /\ s.body.k = "Acquire"

\* the hoistable LetStmts of s that are not reached from an Acquire through
\* LetStmt nodes only; under is TRUE below an Acquire and its LetStmt chain
RECURSIVE StrandedLets(_, _)
StrandedLets(s, under) ==
    (IF IsHoistableLet(s) /\ ~under THEN 1 ELSE 0) +
    CASE s.k = "LetStmt" -> StrandedLets(s.body, under)
      [] s.k = "Acquire" -> StrandedLets(s.body, TRUE)
      [] s.k \in {"For", "Realize", "ProducerConsumer"} ->
            StrandedLets(s.body, FALSE)
      [] s.k \in {"Block", "Fork"} ->
            StrandedLets(s.first, FALSE) + StrandedLets(s.rest, FALSE)
      [] s.k = "IfThenElse" ->
            StrandedLets(s.then_case, FALSE) + StrandedLets(s.else_case, FALSE)
      [] OTHER -> 0

\* "Block(Realize(g, Acquire(s, 1, body)), trailing) becomes
\*  Acquire(s, 1, Block(Realize(g, body), trailing))", body and trailing
\* holding no Acquire of their own
HoistExample ==
    /\ forked.k = "Block"
    /\ forked.first.k = "Realize"
    /\ forked.first.body.k = "Acquire"
    /\ AcquireFree(forked.first.body.body)
    /\ AcquireFree(forked.rest)
    => expanded = Acquire(forked.first.body.semaphore, forked.first.body.count,
                          Block(Realize(forked.first.name, forked.first.body.body),
                                forked.rest))

\* C7 as stated: the output of ExpandAcquireNodes holds no Block whose first
\* child is an Acquire, no Realize or ProducerConsumer whose body is an
\* Acquire, and no LetStmt(n, v, Acquire(s, c, b)) in which neither s nor c
\* references n; Block(Realize(g, Acquire(s, 1, body)), trailing) becomes
\* Acquire(s, 1, Block(Realize(g, body), trailing)).
C7_HoistingComplete ==
    stage = "expanded" =>
        /\ ~HasNode(expanded, IsAcquireFirstBlock)
        /\ ~HasNode(expanded, IsAcquireBodied)
        /\ ~HasNode(expanded, IsHoistableLet)
        /\ HoistExample

\* C7, amended: as C7, but a LetStmt(n, v, Acquire(s, c, b)) in which
\* neither s nor c references n may remain where it is reached from an
\* enclosing Acquire through LetStmt nodes only (the LetStmt rule does not
\* rewrite the LetStmt it builds under the hoisted Acquire).
C7_HoistingButLetChains ==
    stage = "expanded" =>
        /\ ~HasNode(expanded, IsAcquireFirstBlock)
        /\ ~HasNode(expanded, IsAcquireBodied)
        /\ StrandedLets(expanded, FALSE) = 0
        /\ HoistExample

\* an Acquire was hoisted out of a Realize heading a Block, and elsewhere a
\* LetStmt was left around an Acquire under a hoisted Acquire
C7_Witness ==
    /\ stage = "expanded"
    /\ expanded # forked
    /\ \/ /\ forked.k = "Block" /\ forked.first.k = "Realize"
          /\ forked.first.body.k = "Acquire" /\ expanded.k = "Acquire"
       \/ HasNode(expanded, IsHoistableLet)

NoAsync == AsyncRealizes(input, env) = {}

\* each of the four stages after TightenConsumeNodes that has run returned
\* a tree equal to the one it was given
StagesPreserve ==
    /\ stage \notin {"aborted", "hung"}
    /\ stage \in {"forked", "expanded", "tforked", "lowered"} => forked = tightened
    /\ stage \in {"expanded", "tforked", "lowered"} => expanded = forked
    /\ stage \in {"tforked", "lowered"} => tforked = expanded
    /\ stage = "lowered" => lowered = tforked

---------------------------------------------------------------------------
(* Forks whose children bind names: LetStmt x and Realize g around uses of *)
(* x, uses of g and no-ops, under Fork and Block nodes.                     *)

MaxTightenBody == 6

TightenLeaves == {Evaluate(Variable(x)), use(g, 2), NoOp}
TightenUnary == {LetStmt(x, one, Nil), Realize(g, Nil)}
TightenBinary == {Fork(Nil, Nil), Block(Nil, Nil)}

TightenCases(n) ==
    Cases(TreesUpTo(TightenLeaves, TightenUnary, TightenBinary, n), {})

InitTighten == PassInit(TightenCases(MaxTightenBody))
SpecTighten == InitTighten /\ [][PassNext]_vars

IsBinding(s) == s.k \in {"LetStmt", "Realize"}

\* the nodes of s that lie inside a child of a Fork; in_fork is TRUE below
\* a Fork
RECURSIVE ForkNodes(_, _)
ForkNodes(s, in_fork) ==
    (IF in_fork THEN <<s>> ELSE <<>>) \o
    CASE s.k \in {"LetStmt", "Realize", "For", "ProducerConsumer", "Acquire"} ->
            ForkNodes(s.body, in_fork)
      [] s.k = "Fork" -> ForkNodes(s.first, TRUE) \o ForkNodes(s.rest, TRUE)
      [] s.k = "Block" ->
            ForkNodes(s.first, in_fork) \o ForkNodes(s.rest, in_fork)
      [] s.k = "IfThenElse" ->
            ForkNodes(s.then_case, in_fork) \o ForkNodes(s.else_case, in_fork)
      [] OTHER -> <<>>

\* how many LetStmt and Realize nodes inside Fork children satisfy the test P
ForkBindings(s, P(_)) ==
    Len(SelectSeq(ForkNodes(s, FALSE), LAMBDA n : IsBinding(n) /\ P(n)))

IsOrphan(s) == ~stmt_uses_var(s.body, s.name)

\* C6: in the output of TightenForkNodes every LetStmt and every Realize
\* that lies inside a child of a Fork, bindings hoisted above an inner Fork
\* included, has a body that references the name it binds.
C6_NoOrphanBindings ==
    stage = "tforked" => ForkBindings(tforked, IsOrphan) = 0

\* make_fork hoisted a binding above an inner Fork, where it stays inside a
\* child of the outer Fork, and its body references the bound name
C6_Witness ==
    /\ stage = "tforked"
    /\ ForkBindings(tforked, LAMBDA n : n.body.k = "Fork") > 0
    /\ ~HasNode(expanded, LAMBDA n : IsBinding(n) /\ n.body.k = "Fork")

---------------------------------------------------------------------------
(* Markers to narrow: produce f and consume f around LetStmt x, Realize g  *)
(* and Blocks of statements that use f or g.                                *)

MaxMarkerBody == 5

MarkerLeaves == {use(f, 2), use(g, 2)}
MarkerUnary == {produce(f, Nil), consume(f, Nil), LetStmt(x, one, Nil),
                Realize(g, Nil)}

MarkerCases(n) ==
    Cases(TreesUpTo(MarkerLeaves, MarkerUnary, {Block(Nil, Nil)}, n), {})

InitMarker == PassInit(MarkerCases(MaxMarkerBody))
SpecMarker == InitMarker /\ [][PassNext]_vars

IsMarker(s) == s.k = "ProducerConsumer"
scope_of(name) == {name, name \o <<"buffer">>}

\* C9 as stated: a produce marker is left where it is by TightenConsumeNodes
\* (it still wraps its whole, recursively rewritten, body: it is not pushed
\* inside a LetStmt, Realize or nested marker, not moved onto one half of a
\* Block, and not removed); only consume markers are narrowed.
C9_ProduceMarkersStay ==
    stage = "tightened" /\ IsMarker(input) /\ input.is_producer =>
        tightened = ProducerConsumer(input.name, TRUE,
                                     TightenConsumeNodes(input.body))

\* C9, amended: TightenConsumeNodes narrows produce markers as it narrows
\* consume markers: in its output no marker of either kind wraps a LetStmt
\* or a Realize, a produce marker wraps a Block only when both halves of the
\* Block reference name or name.buffer, and a consume marker wraps no Block.
C9_BothMarkersNarrowed ==
    stage = "tightened" =>
        \A m \in {n \in SubStmts(tightened) : IsMarker(n)} :
            /\ m.body.k \notin {"LetStmt", "Realize"}
            /\ m.body.k = "Block" =>
                  /\ m.is_producer
                  /\ stmt_uses_vars(m.body.first, scope_of(m.name))
                  /\ stmt_uses_vars(m.body.rest, scope_of(m.name))

\* a produce marker around a LetStmt was pushed inside it, and a produce
\* marker around a Block was moved onto the half that uses the name
C9_Witness ==
    /\ stage = "tightened"
    /\ IsMarker(input) /\ input.is_producer
    /\ \/ input.body.k = "LetStmt" /\ tightened.k = "LetStmt"
       \/ /\ input.body.k = "Block" /\ tightened.k = "Block"
          /\ IsMarker(tightened.first) /\ ~IsMarker(tightened.rest)

---------------------------------------------------------------------------
\* The LetStmt visit of InitializeSemaphores, step by step: lw holds the
\* locals of the visit of the root LetStmt (body, lets, value, stmt) and
\* wraps counts the passes through the "Re-wrap any other lets" loop.

MaxLets == 3
MaxWraps == 5

\* make_semaphore(c) under j expression-level Lets t1 .. tj, t1 outermost
RECURSIVE LetWrapped(_, _, _)
LetWrapped(i, j, c) ==
    IF i > j THEN make_semaphore(c)
    ELSE Let(<<"t", ToString(i)>>, IntImm(i), LetWrapped(i + 1, j, c))

LowerBodies ==
    {Acquire(Variable(sem), one, use(f, 2)),
     Block(Evaluate(semaphore_release(Variable(sem), one)),
           Acquire(Variable(sem), one, use(f, 2))),
     LetStmt(x, one, Acquire(Variable(sem), one, Evaluate(Variable(x))))}

LowerInputs ==
    {LetStmt(sem, LetWrapped(1, j, IntImm(c)), b) :
        j \in 0..MaxLets, c \in 0..1, b \in LowerBodies}
    \cup {LetStmt(sem, Variable(<<"s">>), b) : b \in LowerBodies}
    \cup {LetStmt(x, one, Evaluate(Variable(x)))}

LowerEnter ==
    /\ stage = "tforked"
    /\ tforked.k = "LetStmt"
    /\ lw' = [pc |-> IF type_of(tforked.value) = SemaphoreT THEN "peel" ELSE "plain",
              op |-> tforked,
              body |-> InitializeSemaphores(tforked.body).stmt,
              lets |-> <<>>,
              value |-> tforked.value,
              stmt |-> Nil,
              wraps |-> 0]
    /\ stage' = "lowering"
    /\ UNCHANGED <<env, input, tightened, forked, expanded, tforked, lowered,
                   error, cloned, minted, rt>>

\* while (const Let *l = value.as<Let>())
LowerPeel ==
    /\ stage = "lowering"
    /\ lw.pc = "peel"
    /\ lw.value.k = "Let"
    /\ lw' = [lw EXCEPT !.lets = Append(@, <<lw.value.name, lw.value.value>>),
                        !.value = lw.value.body]
    /\ UNCHANGED <<stage, env, input, tightened, forked, expanded, tforked,
                   lowered, error, cloned, minted, rt>>

\* const Call *call = value.as<Call>() ... stmt = LetStmt::make(...)
LowerCall ==
    /\ stage = "lowering"
    /\ lw.pc = "peel"
    /\ lw.value.k # "Let"
    /\ IF IsMakeSemaphore(lw.value) THEN
           IF Len(lw.value.args) # 1 THEN
               /\ stage' = "aborted"
               /\ error' = "args.size() == 1"
               /\ lw' = lw
           ELSE
               /\ lw' = [lw EXCEPT !.pc = "rewrap",
                                   !.stmt = LoweredLet(lw.op, lw.value, lw.body)]
               /\ UNCHANGED <<stage, error>>
       ELSE /\ lw' = [lw EXCEPT !.pc = "plain"]
            /\ UNCHANGED <<stage, error>>
    /\ UNCHANGED <<env, input, tightened, forked, expanded, tforked, lowered,
                   cloned, minted, rt>>

\* one pass through while (lets.size()) { stmt = LetStmt::make(...); }
LowerRewrap ==
    /\ stage = "lowering"
    /\ lw.pc = "rewrap"
    /\ Len(lw.lets) # 0
    /\ lw.wraps < MaxWraps
    /\ lw' = [lw EXCEPT !.stmt = LetStmt(Back(lw.lets)[1], Back(lw.lets)[2], @),
                        !.wraps = @ + 1]
    /\ UNCHANGED <<stage, env, input, tightened, forked, expanded, tforked,
                   lowered, error, cloned, minted, rt>>

\* return, or the trailing stmt = LetStmt::make(op->name, op->value, body)
LowerReturn ==
    /\ stage = "lowering"
    /\ \/ lw.pc = "rewrap" /\ Len(lw.lets) = 0
       \/ lw.pc = "plain"
    /\ lowered' = IF lw.pc = "rewrap" THEN lw.stmt
                  ELSE LetStmt(lw.op.name, lw.op.value, lw.body)
    /\ stage' = "lowered"
    /\ UNCHANGED <<env, input, tightened, forked, expanded, tforked, error,
                   cloned, minted, lw, rt>>

LowerNext ==
    \/ Tighten \/ ForkProducers \/ ExpandAcquires \/ TightenForks
    \/ LowerEnter \/ LowerPeel \/ LowerCall \/ LowerRewrap \/ LowerReturn

InitLower == PassInit(Cases(LowerInputs, {}))
SpecLower == InitLower /\ [][LowerNext]_vars

\* stmt under one LetStmt per peeled Let, the first peeled outermost
RECURSIVE WrapLets(_, _)
WrapLets(lets, stmt) ==
    IF lets = <<>> THEN stmt
    ELSE LetStmt(Head(lets)[1], Head(lets)[2], WrapLets(Tail(lets), stmt))

IsSemaphoreLetStmt(s) ==
    /\ s.k = "LetStmt"
    /\ type_of(s.value) = SemaphoreT
    /\ IsMakeSemaphore(PeeledValue(s.value))

\* C8: for a LetStmt(n, v, body) whose value is halide_make_semaphore(c)
\* under j >= 0 expression-level Lets, the visit finishes and returns
\* LetStmt(n, alloca, Block(Evaluate(halide_semaphore_init(n, c)), body'))
\* under one LetStmt per peeled Let, the last peeled innermost: the re-wrap
\* loop passes once per peeled Let and the result has that shape.
C8_LowerTerminatesAndRewraps ==
    /\ stage = "lowering" /\ lw.pc = "rewrap" => lw.wraps <= Len(lw.lets)
    /\ stage = "lowered" /\ IsSemaphoreLetStmt(tforked) =>
          lowered = WrapLets(PeelLets(tforked.value),
                             LoweredLet(tforked, PeeledValue(tforked.value),
                                        InitializeSemaphores(tforked.body).stmt))

---------------------------------------------------------------------------
\* The parallel runtime the generated tree targets.  rt.tasks maps a task
\* (the path of Fork children that leads to it) to the statements it has
\* still to run and the number of children it waits for; rt.sem maps an
\* initialised semaphore to its permits; rt.done holds the leaf statements
\* run since the Realize of an async stage was last entered.

IsSemaphoreCall(s, fn) ==
    /\ s.k = "Evaluate"
    /\ s.value.k = "Call"
    /\ s.value.name = fn
    /\ Len(s.value.args) = 2
    /\ s.value.args[1].k = "Variable"
    /\ s.value.args[2].k = "IntImm"

IsLeaf(s) ==
    /\ s.k \in {"Evaluate", "Provide", "AssertStmt"}
    /\ ~is_no_op(s)
    /\ ~IsSemaphoreCall(s, <<"halide_semaphore_init">>)
    /\ ~IsSemaphoreCall(s, <<"halide_semaphore_release">>)

\* the statements a task passes through without an effect of its own are
\* unfolded until the first statement of the stack is one that acts
RECURSIVE Unfold(_, _)
Unfold(stack, async) ==
    IF stack = <<>> THEN stack
    ELSE LET s == Head(stack)
             below == Tail(stack)
         IN  CASE s.k = "Block" -> Unfold(<<s.first, s.rest>> \o below, async)
               [] s.k \in {"LetStmt", "ProducerConsumer"} ->
                     Unfold(<<s.body>> \o below, async)
               [] s.k = "Realize" /\ s.name \notin async ->
                     Unfold(<<s.body>> \o below, async)
               [] s.k = "For" ->
                     IF s.extent <= 0 THEN Unfold(below, async)
                     ELSE Unfold(<<s.body, For(s.name, s.extent - 1, s.body)>>
                                 \o below, async)
               [] is_no_op(s) -> Unfold(below, async)
               [] OTHER -> stack

Root == <<>>
Ready(t) == rt.tasks[t].pending = 0 /\ rt.tasks[t].stack # <<>>
Top(t) == Head(rt.tasks[t].stack)
\* task t has run its first statement and goes on with the statements next
Advance(t, next) ==
    [rt.tasks EXCEPT ![t].stack = Unfold(next \o Tail(@), env)]

RunFrame == UNCHANGED <<stage, env, input, tightened, forked, expanded,
                        tforked, lowered, error, cloned, minted, lw>>

RunStart ==
    /\ stage = "lowered"
    /\ stage' = "running"
    /\ rt' = [tasks |-> (Root :> [stack |-> Unfold(<<lowered>>, env), pending |-> 0]),
              sem |-> EmptyMap,
              done |-> {}]
    /\ UNCHANGED <<env, input, tightened, forked, expanded, tforked, lowered,
                   error, cloned, minted, lw>>

RunLeaf ==
    /\ stage = "running"
    /\ \E t \in DOMAIN rt.tasks :
          /\ Ready(t)
          /\ IsLeaf(Top(t))
          /\ rt' = [rt EXCEPT !.tasks = Advance(t, <<>>),
                              !.done = @ \cup {Top(t)}]
    /\ RunFrame

\* the body of the Realize of an async stage starts a fresh execution
RunRealize ==
    /\ stage = "running"
    /\ \E t \in DOMAIN rt.tasks :
          /\ Ready(t)
          /\ Top(t).k = "Realize"
          /\ rt' = [rt EXCEPT !.tasks = Advance(t, <<Top(t).body>>),
                              !.done = {}]
    /\ RunFrame

\* halide_semaphore_init(p, n) sets the count to n
RunInit ==
    /\ stage = "running"
    /\ \E t \in DOMAIN rt.tasks :
          /\ Ready(t)
          /\ IsSemaphoreCall(Top(t), <<"halide_semaphore_init">>)
          /\ rt' = [rt EXCEPT !.tasks = Advance(t, <<>>),
                              !.sem = MapPut(@, Top(t).value.args[1].name,
                                             Top(t).value.args[2].value)]
    /\ RunFrame

\* release(s, k) adds k permits atomically
RunRelease ==
    /\ stage = "running"
    /\ \E t \in DOMAIN rt.tasks :
          /\ Ready(t)
          /\ IsSemaphoreCall(Top(t), <<"halide_semaphore_release">>)
          /\ LET n == Top(t).value.args[1].name
             IN  /\ n \in DOMAIN rt.sem
                 /\ rt' = [rt EXCEPT !.tasks = Advance(t, <<>>),
                                     !.sem[n] = @ + Top(t).value.args[2].value]
    /\ RunFrame

\* Acquire blocks until count permits are available, then subtracts them
RunAcquire ==
    /\ stage = "running"
    /\ \E t \in DOMAIN rt.tasks :
          /\ Ready(t)
          /\ Top(t).k = "Acquire"
          /\ Top(t).semaphore.k = "Variable"
          /\ Top(t).count.k = "IntImm"
          /\ LET n == Top(t).semaphore.name
             IN  /\ n \in DOMAIN rt.sem
                 /\ rt.sem[n] >= Top(t).count.value
                 /\ rt' = [rt EXCEPT !.tasks = Advance(t, <<Top(t).body>>),
                                     !.sem[n] = @ - Top(t).count.value]
    /\ RunFrame

\* Fork(a, b) runs a and b as sibling tasks and completes when both have
RunFork ==
    /\ stage = "running"
    /\ \E t \in DOMAIN rt.tasks :
          /\ Ready(t)
          /\ Top(t).k = "Fork"
          /\ rt' = [rt EXCEPT !.tasks =
                 (Append(t, 1) :> [stack |-> Unfold(<<Top(t).first>>, env),
                                   pending |-> 0])
                 @@ (Append(t, 2) :> [stack |-> Unfold(<<Top(t).rest>>, env),
                                      pending |-> 0])
                 @@ [rt.tasks EXCEPT ![t].pending = 2]]
    /\ RunFrame

\* a child task that has nothing left to run ends
RunJoin ==
    /\ stage = "running"
    /\ \E t \in DOMAIN rt.tasks \ {Root} :
          /\ rt.tasks[t].pending = 0
          /\ rt.tasks[t].stack = <<>>
          /\ LET parent == SubSeq(t, 1, Len(t) - 1)
                 rest == [u \in DOMAIN rt.tasks \ {t} |-> rt.tasks[u]]
                 joined == [rest EXCEPT ![parent].pending = @ - 1]
             IN  rt' = [rt EXCEPT !.tasks =
                        IF joined[parent].pending = 0
                        THEN [joined EXCEPT ![parent].stack = Unfold(Tail(@), env)]
                        ELSE joined]
    /\ RunFrame

RunFinish ==
    /\ stage = "running"
    /\ rt.tasks[Root].pending = 0
    /\ rt.tasks[Root].stack = <<>>
    /\ stage' = "ran"
    /\ UNCHANGED <<env, input, tightened, forked, expanded, tforked, lowered,
                   error, cloned, minted, lw, rt>>

RunNext ==
    \/ Tighten \/ ForkProducers \/ ExpandAcquires \/ TightenForks
    \/ LowerSemaphores
    \/ RunStart \/ RunLeaf \/ RunRealize \/ RunInit \/ RunRelease \/ RunAcquire
    \/ RunFork \/ RunJoin \/ RunFinish

(* Programs to run: an async stage f whose Realize body holds produce f,   *)
(* consume f and For loops of two iterations around leaves that use f or   *)
(* g, every leaf carrying a number of its own.                              *)

MaxRunBody == 5
LoopExtent == 2

RunLeaves == {use(f, 0), use(g, 0)}
RunUnary == {produce(f, Nil), consume(f, Nil), For(x, LoopExtent, Nil)}

\* s with its leaves numbered from n on, in visit order
RECURSIVE Numbered(_, _)
Numbered(s, n) ==
    CASE s.k = "Block" ->
            LET a == Numbered(s.first, n)
                b == Numbered(s.rest, a.next)
            IN  [stmt |-> Block(a.stmt, b.stmt), next |-> b.next]
      [] s.k \in {"ProducerConsumer", "For", "Realize"} ->
            LET b == Numbered(s.body, n)
            IN  [stmt |-> [s EXCEPT !.body = b.stmt], next |-> b.next]
      [] OTHER -> [stmt |-> use(s.value.args[1].name, n), next |-> n + 1]

\* larger bodies: two consume regions after a produce node of two
\* statements; the same in a loop; a consume region ahead of a produce node
\* that sits in a loop; a consume region with a statement that does not use f
RunScenarios ==
    {Block(produce(f, Block(use(f, 0), use(g, 0))),
           Block(consume(f, use(f, 0)), consume(f, use(f, 0)))),
     For(x, LoopExtent,
         Block(produce(f, use(f, 0)),
               Block(consume(f, use(f, 0)), consume(f, use(f, 0))))),
     Block(consume(f, use(f, 0)),
           Block(For(x, LoopExtent, produce(f, Block(use(f, 0), use(f, 0)))),
                 consume(f, use(f, 0)))),
     Block(produce(f, Block(use(f, 0), use(f, 0))),
           For(x, LoopExtent, consume(f, Block(use(g, 0), use(f, 0)))))}

RunCases(n) ==
    Cases({Realize(f, Numbered(b, 1).stmt) :
              b \in TreesUpTo(RunLeaves, RunUnary, {Block(Nil, Nil)}, n)
                    \cup RunScenarios},
          {f})

InitRun == PassInit(RunCases(MaxRunBody))
SpecRun == InitRun /\ [][RunNext]_vars

Leaves(s) == {n \in SubStmts(s) : IsLeaf(n)}
ProduceLeaves(s, func) ==
    UNION {Leaves(n.body) : n \in {m \in SubStmts(s) : IsProduceOf(m, func)}}
ConsumeLeaves(s, func) ==
    UNION {Leaves(n.body) : n \in {m \in SubStmts(s) : IsConsumeOf(m, func)}}

Blocked(t) ==
    /\ Ready(t)
    /\ Top(t).k = "Acquire"
    /\ Top(t).semaphore.k = "Variable"
    /\ Top(t).count.k = "IntImm"
    /\ \/ Top(t).semaphore.name \notin DOMAIN rt.sem
       \/ rt.sem[Top(t).semaphore.name] < Top(t).count.value

\* some task waits at an Acquire and every task either does so or waits for
\* its Fork children: nothing is left that could release a permit
Stuck ==
    /\ stage = "running"
    /\ \E t \in DOMAIN rt.tasks : Blocked(t)
    /\ \A t \in DOMAIN rt.tasks : Blocked(t) \/ rt.tasks[t].pending > 0

\* C11: running the output of fork_async_producers for an input with one
\* produce node of the async stage f, apart from its consume regions and
\* with them inside the Realize body of f, never reaches a state in which a
\* task is blocked on an Acquire whose semaphore will never be released,
\* also when a consume region sits in a For loop that does not contain the
\* produce node.
C11_DeadlockFree == SaneRoot => ~Stuck

=============================================================================
